---- MODULE Spec2Model ----
(***************************************************************************)
(* Reconciliation of one Consul agent check by the consul_agent_check      *)
(* module (plugins/modules/consul_agent_check.py).                         *)
(*                                                                         *)
(* One reconciler process runs main() again and again against one agent.   *)
(* Every agent call (GET agent/checks, PUT agent/check/register, PUT       *)
(* agent/check/deregister/<id>) is one step and may be answered with a     *)
(* non-success response.  Python dicts are functions from key strings to   *)
(* value strings; Python's None is the string None for a parameter and the *)
(* object NoneObj for a returned check.                                    *)
(***************************************************************************)
EXTENDS Naturals, Sequences, FiniteSets, TLC

VARIABLES
    checks,     \* the agent: CheckID -> check object (GET agent/checks)
    pc,         \* position of the reconciler inside main()/execute()
    params,     \* module.params of the current run
    checkMode,  \* module.check_mode of the current run
    existing,   \* execute(): obj, the result of the initial read_object()
    calls,      \* agent calls issued by the current run, in order
    changed,    \* result["changed"]
    operation,  \* the operation execute() selected
    err,        \* "none", "ValidationError" or "RequestError"
    ret,        \* value returned by create_object/update_object/delete_object
    checks0,    \* history: the agent's checks when the current run started
    gone,       \* history: ids deregistered by a run and not registered since
    gone0,      \* history: gone when the current run started
    prevNoop,   \* history: id of the run just before, if it was an absent no-op
    prepIn,     \* prepare_object: <<existing, obj>> of the last application
    prepOut     \* prepare_object: its result

vars == <<checks, pc, params, checkMode, existing, calls, changed, operation,
          err, ret, checks0, gone, gone0, prevNoop, prepIn, prepOut>>

-----------------------------------------------------------------------------
(* Values *)

None == "None"

EmptyDict == [k \in {} |-> ""]

NoneObj == [kind |-> "None", val |-> EmptyDict]

Unset == [kind |-> "unset", val |-> EmptyDict]

Dict(d) == [kind |-> "dict", val |-> d]

Restrict(d, K) == [k \in (DOMAIN d) \cap K |-> d[k]]

Merge(a, b) == [k \in (DOMAIN a) \cup (DOMAIN b) |-> IF k \in DOMAIN b THEN b[k] ELSE a[k]]

-----------------------------------------------------------------------------
(* Inputs: the desired specs a caller can hand to the module *)

Ids == {"a", "b"}

Names == {"a", "b"}

ParamKeys == {"name", "id", "interval", "http", "tcp", "ttl", "args"}

Specs ==
    [state : {"present", "absent"},
     name : Names \cup {None},
     id : Ids \cup {None},
     interval : {"60s", None},
     http : {"http://h", None},
     tcp : {"h:80", None},
     ttl : {"30s", None},
     args : {"sh", None}]

Supplied(p) == {k \in ParamKeys : p[k] # None}

-----------------------------------------------------------------------------
(* main(): AnsibleModule argument validation *)

ARGUMENT_SPEC ==
    {"state", "name", "id", "interval", "notes", "http", "tcp", "ttl", "timeout", "service_id"}

(* A faulty variant of MUTUALLY_EXCLUSIVE: http left out of the tuple. *)
MUTUALLY_EXCLUSIVE_without_http == {"script", "ttl", "tcp"}

MUTUALLY_EXCLUSIVE == {"script", "ttl", "tcp", "http"}

REQUIRED_IF(p) ==
    /\ p.state = "present" => p.name # None
    /\ p.state = "absent" => p.id # None

REQUIRED_BY == {"script", "http", "tcp"}

Valid(p) ==
    /\ Supplied(p) \subseteq ARGUMENT_SPEC
    /\ Cardinality(Supplied(p) \cap MUTUALLY_EXCLUSIVE) <= 1
    /\ REQUIRED_IF(p)
    /\ \A k \in REQUIRED_BY : k \in Supplied(p) => "interval" \in Supplied(p)

-----------------------------------------------------------------------------
(* Normalisation of the module parameters into the API object *)

camel_case_key(k) ==
    CASE k = "name" -> "Name"
      [] k = "id" -> "ID"
      [] k = "interval" -> "Interval"
      [] k = "http" -> "HTTP"
      [] k = "tcp" -> "TCP"
      [] k = "ttl" -> "TTL"
      [] k = "args" -> "Args"

module_to_obj(p) ==
    [K \in {camel_case_key(k) : k \in Supplied(p)} |->
        p[CHOOSE k \in Supplied(p) : camel_case_key(k) = K]]

Mechanisms == {"Args", "TTL", "TCP", "HTTP"}

validate_check(d) ==
    /\ Cardinality((DOMAIN d) \cap Mechanisms) <= 1
    /\ \A k \in {"Args", "TCP", "HTTP"} : k \in DOMAIN d => "Interval" \in DOMAIN d

-----------------------------------------------------------------------------
(* The agent: GET agent/checks lists the checks by CheckID; a register call *)
(* stores the payload under its ID, or under its Name when it has no ID,   *)
(* and the agent adds the attributes it computes itself.                   *)

operational_attributes ==
    {"Node", "CheckID", "Output", "ServiceName", "ServiceTags", "Status", "Type",
     "ExposedPort", "Definition"}

CheckIdOf(payload) == IF "ID" \in DOMAIN payload THEN payload["ID"] ELSE payload["Name"]

AgentCheck(payload) ==
    Merge(Restrict(payload, (DOMAIN payload) \ {"ID"}),
          [k \in operational_attributes |->
              CASE k = "CheckID" -> CheckIdOf(payload)
                [] k = "Node" -> "node1"
                [] k = "Status" -> "critical"
                [] k = "Type" -> IF (DOMAIN payload) \cap Mechanisms = {} THEN ""
                                 ELSE CHOOSE m \in (DOMAIN payload) \cap Mechanisms : TRUE
                [] OTHER -> ""])

AgentRegister(listing, payload) ==
    [i \in (DOMAIN listing) \cup {CheckIdOf(payload)} |->
        IF i = CheckIdOf(payload) THEN AgentCheck(payload) ELSE listing[i]]

AgentDeregister(listing, id) == [i \in (DOMAIN listing) \ {id} |-> listing[i]]

AgentPut(listing, url, data) ==
    IF url = <<"agent", "check", "register">>
    THEN AgentRegister(listing, data)
    ELSE IF Len(url) = 4 /\ SubSeq(url, 1, 3) = <<"agent", "check", "deregister">>
         THEN AgentDeregister(listing, url[4])
         ELSE listing

-----------------------------------------------------------------------------
(* ConsulAgentCheckModule *)

unique_identifier == "id"

(* A faulty variant of endpoint_url: the identifier is not joined to the   *)
(* deregister path.                                                        *)
endpoint_url_without_identifier(op, identifier) ==
    CASE op = "read" -> <<"agent", "checks">>
      [] op \in {"create", "update"} -> <<"agent", "check", "register">>
      [] op = "delete" -> <<"agent", "check", "deregister">>

endpoint_url(op, identifier) ==
    CASE op = "read" -> <<"agent", "checks">>
      [] op \in {"create", "update"} -> <<"agent", "check", "register">>
      [] op = "delete" -> <<"agent", "check", "deregister", identifier>>

(* A faulty variant of read_object: tests the listing for truth instead of *)
(* for the identifier and returns one of its checks.                       *)
read_object_any(listing, p) ==
    IF DOMAIN listing # {}
    THEN Dict(listing[CHOOSE i \in DOMAIN listing : TRUE])
    ELSE NoneObj

read_object(listing, p) ==
    IF p[unique_identifier] \in DOMAIN listing
    THEN Dict(listing[p[unique_identifier]])
    ELSE NoneObj

base_prepare_object(ex, obj) == Merge(ex, obj)

(* A faulty variant of prepare_object: strips the existing check before    *)
(* the merge, so keys of the desired object pass.                          *)
prepare_object_existing_only(ex, obj) ==
    base_prepare_object(Restrict(ex, (DOMAIN ex) \ operational_attributes), obj)

prepare_object(ex, obj) ==
    LET merged == base_prepare_object(ex, obj)
    IN Restrict(merged, (DOMAIN merged) \ operational_attributes)

Call(method, url, data, ok) == [method |-> method, url |-> url, data |-> data, ok |-> ok]

RequestFailed ==
    /\ err' = "RequestError"
    /\ pc' = "done"

Finish(r, c) ==
    /\ ret' = r
    /\ changed' = c
    /\ pc' = "done"

-----------------------------------------------------------------------------
(* State machine *)

NoParams ==
    [state |-> "present", name |-> None, id |-> None, interval |-> None,
     http |-> None, tcp |-> None, ttl |-> None, args |-> None]

Init ==
    /\ checks = [i \in {} |-> EmptyDict]
    /\ pc = "idle"
    /\ params = NoParams
    /\ checkMode = FALSE
    /\ existing = Unset
    /\ calls = <<>>
    /\ changed = FALSE
    /\ operation = "none"
    /\ err = "none"
    /\ ret = Unset
    /\ checks0 = checks
    /\ gone = {}
    /\ gone0 = {}
    /\ prevNoop = None
    /\ prepIn = <<EmptyDict, EmptyDict>>
    /\ prepOut = EmptyDict

(* main(): a new run; AnsibleModule(...) validates the parameters and fails *)
(* the run before ConsulAgentCheckModule.execute() is entered.              *)
main(p, cm) ==
    /\ pc = "idle"
    /\ params' = p
    /\ checkMode' = cm
    /\ checks0' = checks
    /\ gone0' = gone
    /\ IF Valid(p)
       THEN pc' = "read" /\ err' = "none"
       ELSE pc' = "done" /\ err' = "ValidationError"
    /\ UNCHANGED <<checks, existing, calls, changed, operation, ret, gone, prevNoop,
                   prepIn, prepOut>>

(* exit_json/fail_json: the run ends and the process with it; nothing but  *)
(* the agent's checks outlives it.                                         *)
exit_json ==
    /\ pc = "done"
    /\ pc' = "idle"
    /\ params' = NoParams
    /\ checkMode' = FALSE
    /\ existing' = Unset
    /\ calls' = <<>>
    /\ changed' = FALSE
    /\ operation' = "none"
    /\ err' = "none"
    /\ ret' = Unset
    /\ checks0' = checks
    /\ gone0' = gone
    /\ prevNoop' = IF params.state = "absent" /\ err = "none" /\ ~changed
                   THEN params.id ELSE None
    /\ prepIn' = <<EmptyDict, EmptyDict>>
    /\ prepOut' = EmptyDict
    /\ UNCHANGED <<checks, gone>>

(* execute(): the initial read_object() and the choice of the operation *)
SelectOperation(state, obj) ==
    IF state = "present"
    THEN IF obj.kind = "None" THEN "create" ELSE "update"
    ELSE IF obj.kind = "None" THEN "none" ELSE "delete"

execute ==
    /\ pc = "read"
    /\ \E ok \in BOOLEAN :
        /\ calls' = Append(calls, Call("GET", endpoint_url("read", None), EmptyDict, ok))
        /\ IF ok
           THEN LET obj == read_object(checks, params)
                    op == SelectOperation(params.state, obj)
                IN /\ existing' = obj
                   /\ operation' = op
                   /\ pc' = IF op = "none" THEN "done" ELSE op
                   /\ UNCHANGED err
           ELSE /\ RequestFailed
                /\ UNCHANGED <<existing, operation>>
    /\ UNCHANGED <<checks, params, checkMode, changed, ret, checks0, gone, gone0,
                   prevNoop, prepIn, prepOut>>

(* put(url, data): one mutating call; the agent applies it when it succeeds *)
Put(url, data, next) ==
    \E ok \in BOOLEAN :
        /\ calls' = Append(calls, Call("PUT", url, data, ok))
        /\ IF ok
           THEN /\ checks' = AgentPut(checks, url, data)
                /\ gone' = (gone \cup ((DOMAIN checks) \ DOMAIN checks')) \ DOMAIN checks'
                /\ next
           ELSE /\ RequestFailed
                /\ UNCHANGED <<checks, gone, ret, changed>>

(* A faulty variant of create_object: the call of the base create_object   *)
(* is missing, so nothing is registered.                                   *)
create_object_without_register ==
    /\ pc = "create"
    /\ LET obj == module_to_obj(params)
       IN IF checkMode
          THEN /\ Finish(Dict(obj), TRUE)
               /\ UNCHANGED <<checks, gone, calls, err>>
          ELSE /\ pc' = "reread"
               /\ UNCHANGED <<checks, gone, calls, ret, changed, err>>
    /\ UNCHANGED <<params, checkMode, existing, operation, checks0, gone0, prevNoop,
                   prepIn, prepOut>>

create_object ==
    /\ pc = "create"
    /\ LET obj == module_to_obj(params)
       IN IF checkMode
          THEN /\ Finish(Dict(obj), TRUE)
               /\ UNCHANGED <<checks, gone, calls, err>>
          ELSE Put(endpoint_url("create", None), obj,
                   pc' = "reread" /\ UNCHANGED <<ret, changed, err>>)
    /\ UNCHANGED <<params, checkMode, existing, operation, checks0, gone0, prevNoop,
                   prepIn, prepOut>>

(* A faulty variant of update_object: compares the desired object with the *)
(* existing check and skips the update when they agree.                    *)
update_object_when_different ==
    /\ pc = "update"
    /\ LET obj == module_to_obj(params)
           merged == prepare_object(existing.val, obj)
       IN /\ prepIn' = <<existing.val, obj>>
          /\ prepOut' = merged
          /\ IF ~validate_check(merged)
             THEN /\ err' = "ValidationError"
                  /\ pc' = "done"
                  /\ UNCHANGED <<checks, gone, calls, ret, changed>>
             ELSE IF \A k \in DOMAIN obj :
                        k = "ID" \/ (k \in DOMAIN existing.val /\ existing.val[k] = obj[k])
                  THEN /\ Finish(existing, FALSE)
                       /\ UNCHANGED <<checks, gone, calls, err>>
                  ELSE IF checkMode
                       THEN /\ Finish(Dict(obj), TRUE)
                            /\ UNCHANGED <<checks, gone, calls, err>>
                       ELSE Put(endpoint_url("update", existing.val["CheckID"]), merged,
                                pc' = "reread" /\ UNCHANGED <<ret, changed, err>>)
    /\ UNCHANGED <<params, checkMode, existing, operation, checks0, gone0, prevNoop>>

update_object ==
    /\ pc = "update"
    /\ LET obj == module_to_obj(params)
           merged == prepare_object(existing.val, obj)
       IN /\ prepIn' = <<existing.val, obj>>
          /\ prepOut' = merged
          /\ IF ~validate_check(merged)
             THEN /\ err' = "ValidationError"
                  /\ pc' = "done"
                  /\ UNCHANGED <<checks, gone, calls, ret, changed>>
             ELSE IF checkMode
                  THEN /\ Finish(Dict(obj), TRUE)
                       /\ UNCHANGED <<checks, gone, calls, err>>
                  ELSE Put(endpoint_url("update", existing.val["CheckID"]), merged,
                           pc' = "reread" /\ UNCHANGED <<ret, changed, err>>)
    /\ UNCHANGED <<params, checkMode, existing, operation, checks0, gone0, prevNoop>>

(* A faulty variant of delete_object: check mode is not looked at. *)
delete_object_without_check_mode ==
    /\ pc = "delete"
    /\ Put(endpoint_url("delete", existing.val["CheckID"]), EmptyDict,
           Finish(Dict(EmptyDict), TRUE) /\ UNCHANGED err)
    /\ UNCHANGED <<params, checkMode, existing, operation, checks0, gone0, prevNoop,
                   prepIn, prepOut>>

(* A faulty variant of delete_object: a failed deregister is swallowed. *)
delete_object_ignoring_failure ==
    /\ pc = "delete"
    /\ IF checkMode
       THEN /\ Finish(Dict(EmptyDict), TRUE)
            /\ UNCHANGED <<checks, gone, calls, err>>
       ELSE \E ok \in BOOLEAN :
               LET url == endpoint_url("delete", existing.val["CheckID"])
               IN /\ calls' = Append(calls, Call("PUT", url, EmptyDict, ok))
                  /\ checks' = IF ok THEN AgentPut(checks, url, EmptyDict) ELSE checks
                  /\ gone' = (gone \cup ((DOMAIN checks) \ DOMAIN checks')) \ DOMAIN checks'
                  /\ Finish(Dict(EmptyDict), TRUE)
                  /\ UNCHANGED err
    /\ UNCHANGED <<params, checkMode, existing, operation, checks0, gone0, prevNoop,
                   prepIn, prepOut>>

delete_object ==
    /\ pc = "delete"
    /\ IF checkMode
       THEN /\ Finish(Dict(EmptyDict), TRUE)
            /\ UNCHANGED <<checks, gone, calls, err>>
       ELSE Put(endpoint_url("delete", existing.val["CheckID"]), EmptyDict,
                Finish(Dict(EmptyDict), TRUE) /\ UNCHANGED err)
    /\ UNCHANGED <<params, checkMode, existing, operation, checks0, gone0, prevNoop,
                   prepIn, prepOut>>

(* create_object/update_object outside check mode: return self.read_object() *)
confirm_read ==
    /\ pc = "reread"
    /\ \E ok \in BOOLEAN :
        /\ calls' = Append(calls, Call("GET", endpoint_url("read", None), EmptyDict, ok))
        /\ IF ok
           THEN Finish(read_object(checks, params), TRUE) /\ UNCHANGED err
           ELSE RequestFailed /\ UNCHANGED <<ret, changed>>
    /\ UNCHANGED <<checks, params, checkMode, existing, operation, checks0, gone, gone0,
                   prevNoop, prepIn, prepOut>>

Next ==
    \/ \E p \in Specs, cm \in BOOLEAN : main(p, cm)
    \/ execute
    \/ create_object
    \/ update_object
    \/ delete_object
    \/ confirm_read
    \/ exit_json

Spec == Init /\ [][Next]_vars

-----------------------------------------------------------------------------
(* prepare_object on its own: every pair of an existing check and a desired *)
(* object with at most MaxKeys keys each, the keys drawn from the           *)
(* operational attributes and three configuration attributes.               *)

MaxKeys == 2

PrepKeys == operational_attributes \cup {"Name", "Interval", "TCP"}

KeySets == {K \in SUBSET PrepKeys : Cardinality(K) <= MaxKeys}

ExistingDicts == {[k \in K |-> "agent"] : K \in KeySets}

ObjDicts == {[k \in K |-> "module"] : K \in KeySets}

PrepInit ==
    /\ checks = [i \in {} |-> EmptyDict]
    /\ pc = "prepare"
    /\ params = NoParams
    /\ checkMode = FALSE
    /\ existing = Unset
    /\ calls = <<>>
    /\ changed = FALSE
    /\ operation = "update"
    /\ err = "none"
    /\ ret = Unset
    /\ checks0 = checks
    /\ gone = {}
    /\ gone0 = {}
    /\ prevNoop = None
    /\ prepIn \in ExistingDicts \X ObjDicts
    /\ prepOut = EmptyDict

PrepApply ==
    /\ pc = "prepare"
    /\ prepOut' = prepare_object(prepIn[1], prepIn[2])
    /\ pc' = IF validate_check(prepOut') THEN "prepared" ELSE "rejected"
    /\ UNCHANGED <<checks, params, checkMode, existing, calls, changed, operation, err,
                   ret, checks0, gone, gone0, prevNoop, prepIn>>

SpecPrepare == PrepInit /\ [][PrepApply]_vars

-----------------------------------------------------------------------------
(* Type invariant *)

TypeOK ==
    /\ pc \in {"idle", "read", "create", "update", "delete", "reread", "done"}
    /\ existing.kind \in {"unset", "None", "dict"}
    /\ ret.kind \in {"unset", "None", "dict"}
    /\ gone \subseteq Ids \ DOMAIN checks
    /\ params \in Specs
    /\ checkMode \in BOOLEAN
    /\ changed \in BOOLEAN
    /\ operation \in {"none", "create", "update", "delete"}
    /\ err \in {"none", "ValidationError", "RequestError"}
    /\ DOMAIN checks \subseteq Ids
    /\ \A i \in DOMAIN checks : checks[i]["CheckID"] = i
    /\ Len(calls) <= 3

-----------------------------------------------------------------------------
(* Observations of the current run *)

Done == pc = "done"

Mutations == {i \in 1..Len(calls) : calls[i].method = "PUT"}

ReadOk == Len(calls) >= 1 /\ calls[1].ok

Found0 == params.id \in DOMAIN checks0

RegisterUrl == <<"agent", "check", "register">>

DeregisterUrl(id) == <<"agent", "check", "deregister", id>>

-----------------------------------------------------------------------------
(* C1: once the initial read of the listing has succeeded, the operation    *)
(* is the one the transition table gives for (desired state, check found   *)
(* under the spec's id): present/not found -> create, present/found ->     *)
(* update, absent/found -> delete, absent/not found -> none; create and    *)
(* update send their mutating call to the register URL, delete sends it to *)
(* the deregister URL of the found check's CheckID, none sends no call.    *)
C1_OperationTable ==
    ReadOk =>
        /\ operation = (IF params.state = "present"
                        THEN IF Found0 THEN "update" ELSE "create"
                        ELSE IF Found0 THEN "delete" ELSE "none")
        /\ \A i \in Mutations :
              calls[i].url = (IF operation \in {"create", "update"}
                              THEN RegisterUrl
                              ELSE DeregisterUrl(checks0[params.id]["CheckID"]))
        /\ operation = "none" => Mutations = {}
        /\ (Done /\ err = "none" /\ ~checkMode /\ operation # "none") => Mutations # {}

C1_Witness ==
    /\ Done /\ err = "none" /\ operation = "delete" /\ ~checkMode
    /\ calls[2].url = DeregisterUrl(params.id)
    /\ params.id \notin DOMAIN checks

(* C2: a present spec whose id is a key of the listing, when the run ends  *)
(* without error, has taken the update branch and reports changed=true,    *)
(* also when the desired object adds nothing to the existing check.        *)
C2_UpdateAlwaysChanged ==
    (Done /\ err = "none" /\ params.state = "present" /\ Found0) =>
        (changed /\ operation = "update")

SameAsExisting ==
    /\ Found0
    /\ LET obj == module_to_obj(params)
           cfg == Restrict(checks0[params.id],
                           (DOMAIN checks0[params.id]) \ operational_attributes)
       IN Merge(cfg, [k \in {"ID"} |-> params.id]) = obj

C2_Witness ==
    /\ Done /\ err = "none" /\ params.state = "present" /\ ~checkMode
    /\ SameAsExisting
    /\ checks = checks0
    /\ changed

MultiMechanism(p) == Cardinality({k \in {"args", "ttl", "tcp", "http"} : p[k] # None}) > 1

NeedsInterval(p) == (p.args # None \/ p.tcp # None \/ p.http # None) /\ p.interval = None

C5_ValidationBeforeCalls ==
    (MultiMechanism(params) \/ NeedsInterval(params)) =>
        (Done /\ err = "ValidationError" /\ calls = <<>> /\ checks = checks0)

C5_Witness ==
    /\ Done /\ err = "ValidationError" /\ calls = <<>>
    /\ params.tcp # None /\ params.http # None /\ params.interval # None
    /\ params.args = None /\ params.ttl = None

(* C6 as claimed: every run that is not a dry run and ends without error   *)
(* has sent exactly one mutating call, and every dry run none.             *)
C6_Original ==
    (Done /\ err = "none") =>
        Cardinality(Mutations) = (IF checkMode THEN 0 ELSE 1)

(* C6 as amended: a run sends at most one mutating call and a dry run      *)
(* none; a run that is not a dry run and ends without error has sent       *)
(* exactly one when its operation is create, update or delete and none     *)
(* when it is the no-op of absent/not found.                               *)
C6_AtMostOneMutation ==
    /\ Cardinality(Mutations) <= 1
    /\ checkMode => Mutations = {}
    /\ (Done /\ err = "none" /\ ~checkMode) =>
           Cardinality(Mutations) = (IF operation = "none" THEN 0 ELSE 1)
    /\ (Done /\ err = "none" /\ operation = "none") =>
           (params.state = "absent" /\ ~Found0)

C6_Witness ==
    /\ Done /\ err = "none" /\ ~checkMode
    /\ operation = "none" /\ Mutations = {}
    /\ Len(calls) = 1
    /\ DOMAIN checks # {}

(* C7 as claimed: a create or update that is not a dry run and ends        *)
(* without error returns the agent's check that the register call has just *)
(* stored, never None.                                                     *)
C7_ReturnsRegisteredCheck ==
    (Done /\ err = "none" /\ ~checkMode /\ operation \in {"create", "update"}) =>
        /\ ret.kind = "dict"
        /\ ret.val = checks[CheckIdOf(calls[2].data)]

(* C8 as claimed (its last part): a run that ends in an error leaves the   *)
(* agent's checks as they were when it started.                            *)
C8_Original ==
    (Done /\ err # "none") => checks = checks0

FailedCalls == {i \in 1..Len(calls) : ~calls[i].ok}

(* C8 as amended: a call answered with a non-success response is the last  *)
(* call of its run, which ends there with a RequestError; a run that ends  *)
(* in an error before its confirmatory read leaves the agent's checks as   *)
(* they were, and one whose confirmatory read fails leaves the register    *)
(* call it made applied in full.                                           *)
C8_FatalErrors ==
    /\ \A i \in FailedCalls : i = Len(calls) /\ Done /\ err = "RequestError"
    /\ (Done /\ err = "RequestError") => FailedCalls # {}
    /\ (Done /\ err # "none") =>
           /\ ret = Unset
           /\ ~changed
           /\ IF Len(calls) = 3
              THEN /\ calls[2].url = RegisterUrl
                   /\ checks = AgentRegister(checks0, calls[2].data)
              ELSE checks = checks0

C8_Witness ==
    /\ Done /\ err = "RequestError"
    /\ Len(calls) = 3 /\ ~calls[3].ok
    /\ checks # checks0

(* C9 as claimed: when the initial read has succeeded and the spec's id is *)
(* not a key of the listing but its name is, the reader returns the check  *)
(* listed under the name.                                                  *)
C9_NameFallback ==
    (ReadOk /\ ~Found0 /\ params.name \in DOMAIN checks0) =>
        existing = Dict(checks0[params.name])

(* C10: the object prepare_object hands to validate_check and returns has  *)
(* none of the keys Node, CheckID, Output, ServiceName, ServiceTags,       *)
(* Status, Type, ExposedPort, Definition, wherever the key came from, and  *)
(* has every other key of the merged object with the merged value.         *)
C10_OperationalStripped ==
    pc \in {"prepared", "rejected"} =>
        LET merged == base_prepare_object(prepIn[1], prepIn[2])
            stripped == {"Node", "CheckID", "Output", "ServiceName", "ServiceTags",
                         "Status", "Type", "ExposedPort", "Definition"}
        IN /\ (DOMAIN prepOut) \cap stripped = {}
           /\ DOMAIN prepOut = (DOMAIN merged) \ stripped
           /\ \A k \in DOMAIN prepOut : prepOut[k] = merged[k]

C10_Witness ==
    /\ pc = "prepared"
    /\ "Status" \in DOMAIN prepIn[1]
    /\ "CheckID" \in DOMAIN prepIn[2]
    /\ "Name" \in DOMAIN prepIn[1] /\ "Name" \in DOMAIN prepIn[2]
    /\ prepOut = [k \in {"Name"} |-> "module"]

====
